---- MODULE Spec2Model ----
(***************************************************************************)
(* Model of the aggretastic tree abstraction: the node adapter `tree`      *)
(* (embedded in every aggregation kind) and the root collection            *)
(* `Aggregations`, with their path operations Inject / InjectX / Select /  *)
(* Pop / Export and the predicate IsNilTree, and the part of an            *)
(* aggregation kind that touches the adapter: the builder SubAggregation,  *)
(* the setters Meta and Script, and Source, which renders the children.    *)
(*                                                                         *)
(* The heap is a fixed set of aggregation nodes.  A value of the Go        *)
(* interface type Aggregation is a node identity or Nil (the nil           *)
(* interface).  A method call on Nil is a nil dereference: the operators   *)
(* return Panic for it, and the program stops there.                       *)
(*                                                                         *)
(* The caller holds one collection and may also call the methods of        *)
(* *Aggregations on a nil pointer ("no collection at all"): the operators  *)
(* of the collection take `present`, FALSE for the nil receiver.           *)
(***************************************************************************)
EXTENDS Integers, Sequences, FiniteSets, TLC

\* ---- bounds of the model ----
NumNodes == 2
MaxPathLen == 3
MaxOps == 3

Names == {"a", "b"}
Nodes == 1..NumNodes
\* the nil interface value (of Aggregation, and of elastic.Aggregation)
Nil == 0
\* marker for a call that ended in a nil-dereference panic
Panic == 0 - 1
Values == Nodes \cup {Nil}

Paths == UNION {[1..k -> Names] : k \in 0..MaxPathLen}

\* error values
NoError == "nil"
ErrNoPath == "no path"
ErrPathNotSelectable == "path is not selectable"
ErrAggIsNotInjectable == "agg is not injectable"
PanicErr == "panic"
\* unbounded recursion: the runtime ends the program with a stack overflow
StackOverflow == "stack overflow"
\* the error of a script whose Source() fails
ErrScript == "script error"

EmptyMap == [k \in {} |-> Nil]
\* m[k] = v of a Go map
MapSet(m, k, v) == [x \in (DOMAIN m) \cup {k} |-> IF x = k THEN v ELSE m[x]]
\* delete(m, k) of a Go map
MapDelete(m, k) == [x \in (DOMAIN m) \ {k} |-> m[x]]

Front(path) == SubSeq(path, 1, Len(path) - 1)
Last(path) == path[Len(path)]

VARIABLES
  root,            \* root[n]: the tree adapter's root field of node n
  subAggregations, \* subAggregations[n]: the child map of node n
  aggs,            \* the map behind the caller's non-nil *Aggregations pointer
  meta,            \* meta[n]: the meta field of node n
  script,          \* script[n]: the script field of node n
  last,            \* observation of the call under test: arguments, state before, outcome
  ops              \* number of calls made so far

vars == <<root, subAggregations, aggs, meta, script, last, ops>>

\* an Export that answers from the child mapping: no instance once the node
\* has children
ExportReadsChildren(t) == IF DOMAIN subAggregations[t] = {} THEN root[t] ELSE Nil

\* tree.Export: the root field, never the children
Export(t) == root[t]

IsNilTree(t) == t = Nil \/ Export(t) = Nil

\* tree.Select on the heap S, receiver a
RECURSIVE TreeSelect(_, _, _)
TreeSelect(S, a, path) ==
  IF Len(path) = 0 THEN Nil
  ELSE IF path[1] \notin DOMAIN S[a] THEN Nil
  ELSE LET subAgg == S[a][path[1]] IN
       IF Len(path) = 1 THEN subAgg
       ELSE IF subAgg = Nil THEN Panic
       ELSE TreeSelect(S, subAgg, Tail(path))

\* tree.Pop: the returned node and the heap afterwards
RECURSIVE TreePop(_, _, _)
TreePop(S, a, path) ==
  IF Len(path) = 0 THEN [ret |-> Nil, subs |-> S]
  ELSE IF path[1] \notin DOMAIN S[a] THEN [ret |-> Nil, subs |-> S]
  ELSE LET subAgg == S[a][path[1]] IN
       IF Len(path) = 1
       THEN [ret |-> subAgg, subs |-> [S EXCEPT ![a] = MapDelete(S[a], path[1])]]
       ELSE IF subAgg = Nil THEN [ret |-> Panic, subs |-> S]
       ELSE TreePop(S, subAgg, Tail(path))

\* tree.Inject with a non-empty path: the single-level store, or the deeper inject
TreeInjectAt(S, a, subAggregation, path) ==
  IF Len(path) = 1
  THEN [err |-> NoError, subs |-> [S EXCEPT ![a] = MapSet(S[a], path[1], subAggregation)]]
  ELSE LET cursor == TreeSelect(S, a, Front(path)) IN
       IF cursor = Panic THEN [err |-> PanicErr, subs |-> S]
       ELSE IF IsNilTree(cursor) THEN [err |-> ErrPathNotSelectable, subs |-> S]
       ELSE [err |-> NoError,
             subs |-> [S EXCEPT ![cursor] = MapSet(S[cursor], Last(path), subAggregation)]]

\* a tree.Inject without the test for an empty path: path[:len(path)-1] of an
\* empty path is out of range, the call panics
TreeInjectNoPathCheck(S, a, subAggregation, path) ==
  IF Len(path) = 0 THEN [err |-> PanicErr, subs |-> S]
  ELSE TreeInjectAt(S, a, subAggregation, path)

\* tree.Inject: the returned error and the heap afterwards
TreeInject(S, a, subAggregation, path) ==
  IF Len(path) = 0 THEN [err |-> ErrNoPath, subs |-> S]
  ELSE TreeInjectAt(S, a, subAggregation, path)

\* a tree.InjectX that skips the existence test and always injects
TreeInjectXOverwrites(S, a, subAggregation, path) ==
  IF Len(path) = 0 THEN [err |-> ErrNoPath, subs |-> S]
  ELSE LET alreadyInjected == TreeSelect(S, a, path) IN
       IF alreadyInjected = Panic THEN [err |-> PanicErr, subs |-> S]
       ELSE TreeInject(S, a, subAggregation, path)

\* tree.InjectX
TreeInjectX(S, a, subAggregation, path) ==
  IF Len(path) = 0 THEN [err |-> ErrNoPath, subs |-> S]
  ELSE LET alreadyInjected == TreeSelect(S, a, path) IN
       IF alreadyInjected = Panic THEN [err |-> PanicErr, subs |-> S]
       ELSE IF IsNilTree(alreadyInjected) THEN TreeInject(S, a, subAggregation, path)
       ELSE [err |-> NoError, subs |-> S]

\* Aggregations.Export: a nil collection exports an empty map; an entry that
\* is the nil interface makes v.Export() a nil dereference
AggregationsExport(A, present) ==
  IF ~present THEN [err |-> NoError, result |-> EmptyMap]
  ELSE IF \E k \in DOMAIN A : A[k] = Nil THEN [err |-> PanicErr, result |-> EmptyMap]
  ELSE [err |-> NoError, result |-> [k \in DOMAIN A |-> Export(A[k])]]

\* an Aggregations.Select that stops at the top-level entry
AggregationsSelectStopsAtBase(A, present, S, path) ==
  IF Len(path) = 0 THEN Nil
  ELSE IF ~present THEN Panic
  ELSE IF path[1] \notin DOMAIN A THEN Nil
  ELSE A[path[1]]

\* Aggregations.Select; (*a)[...] on a nil collection is a nil dereference
AggregationsSelect(A, present, S, path) ==
  IF Len(path) = 0 THEN Nil
  ELSE IF ~present THEN Panic
  ELSE IF path[1] \notin DOMAIN A THEN Nil
  ELSE LET base == A[path[1]] IN
       IF Len(path) = 1 THEN base
       ELSE IF base = Nil THEN Panic
       ELSE TreeSelect(S, base, Tail(path))

\* an Aggregations.Pop that deletes the top-level entry it descends through
AggregationsPopDropsBase(A, present, S, path) ==
  IF Len(path) = 0 THEN [ret |-> Nil, aggs |-> A, subs |-> S]
  ELSE IF ~present THEN [ret |-> Panic, aggs |-> A, subs |-> S]
  ELSE IF path[1] \notin DOMAIN A THEN [ret |-> Nil, aggs |-> A, subs |-> S]
  ELSE LET base == A[path[1]] IN
       IF Len(path) = 1
       THEN [ret |-> base, aggs |-> MapDelete(A, path[1]), subs |-> S]
       ELSE IF base = Nil THEN [ret |-> Panic, aggs |-> A, subs |-> S]
       ELSE LET r == TreePop(S, base, Tail(path)) IN
            [ret |-> r.ret, aggs |-> MapDelete(A, path[1]), subs |-> r.subs]

\* Aggregations.Pop: the returned node, the collection and the heap afterwards
AggregationsPop(A, present, S, path) ==
  IF Len(path) = 0 THEN [ret |-> Nil, aggs |-> A, subs |-> S]
  ELSE IF ~present THEN [ret |-> Panic, aggs |-> A, subs |-> S]
  ELSE IF path[1] \notin DOMAIN A THEN [ret |-> Nil, aggs |-> A, subs |-> S]
  ELSE LET base == A[path[1]] IN
       IF Len(path) = 1
       THEN [ret |-> base, aggs |-> MapDelete(A, path[1]), subs |-> S]
       ELSE IF base = Nil THEN [ret |-> Panic, aggs |-> A, subs |-> S]
       ELSE LET r == TreePop(S, base, Tail(path)) IN
            [ret |-> r.ret, aggs |-> A, subs |-> r.subs]

\* Aggregations.Inject on a collection that exists
AggregationsInjectAt(A, S, subAgg, path) ==
  IF Len(path) = 0 THEN [err |-> ErrNoPath, aggs |-> A, subs |-> S]
  ELSE LET name == path[1] IN
       IF Len(path) = 1
       THEN [err |-> NoError, aggs |-> MapSet(A, name, subAgg), subs |-> S]
       ELSE IF name \notin DOMAIN A
       THEN [err |-> ErrAggIsNotInjectable, aggs |-> A, subs |-> S]
       ELSE IF A[name] = Nil THEN [err |-> PanicErr, aggs |-> A, subs |-> S]
       ELSE LET r == TreeInject(S, A[name], subAgg, Tail(path)) IN
            [err |-> r.err, aggs |-> A, subs |-> r.subs]

\* an Aggregations.Inject that tests the path before it tests the receiver
AggregationsInjectPathFirst(A, present, S, subAgg, path) ==
  IF Len(path) = 0 THEN [err |-> ErrNoPath, aggs |-> A, subs |-> S]
  ELSE IF ~present THEN [err |-> ErrAggIsNotInjectable, aggs |-> A, subs |-> S]
  ELSE AggregationsInjectAt(A, S, subAgg, path)

\* Aggregations.Inject: the returned error, the collection and the heap afterwards
AggregationsInject(A, present, S, subAgg, path) ==
  IF ~present THEN [err |-> ErrAggIsNotInjectable, aggs |-> A, subs |-> S]
  ELSE AggregationsInjectAt(A, S, subAgg, path)

\* Aggregations.InjectX
AggregationsInjectX(A, present, S, subAgg, path) ==
  IF ~present THEN [err |-> ErrAggIsNotInjectable, aggs |-> A, subs |-> S]
  ELSE IF Len(path) = 0 THEN [err |-> ErrNoPath, aggs |-> A, subs |-> S]
  ELSE LET name == path[1] IN
       IF Len(path) = 1
       THEN [err |-> NoError,
             aggs |-> IF name \notin DOMAIN A THEN MapSet(A, name, subAgg) ELSE A,
             subs |-> S]
       ELSE IF name \notin DOMAIN A
       THEN [err |-> ErrAggIsNotInjectable, aggs |-> A, subs |-> S]
       ELSE IF A[name] = Nil THEN [err |-> PanicErr, aggs |-> A, subs |-> S]
       ELSE LET r == TreeInjectX(S, A[name], subAgg, Tail(path)) IN
            [err |-> r.err, aggs |-> A, subs |-> r.subs]

\* ---- the accesses to a child mapping or a top-level mapping (a lookup, a
\* store or a delete) that a call makes before it returns or crashes ----

\* a tree.Select that hands the whole path to the child instead of path[1:]:
\* it descends as long as the first segment is a key, at most Fuel levels here
Fuel == 2 * MaxPathLen + 1
RECURSIVE SamePathLookups(_, _, _, _)
SamePathLookups(S, a, path, fuel) ==
  IF fuel = 0 \/ Len(path) = 0 THEN 0
  ELSE IF path[1] \notin DOMAIN S[a] \/ Len(path) = 1 THEN 1
  ELSE IF S[a][path[1]] = Nil THEN 1
  ELSE 1 + SamePathLookups(S, S[a][path[1]], path, fuel - 1)

TreeSelectLookupsSamePath(S, a, path) == SamePathLookups(S, a, path, Fuel)

\* tree.Select: one lookup for each level it reaches
RECURSIVE TreeSelectLookups(_, _, _)
TreeSelectLookups(S, a, path) ==
  IF Len(path) = 0 THEN 0
  ELSE IF path[1] \notin DOMAIN S[a] \/ Len(path) = 1 THEN 1
  ELSE IF S[a][path[1]] = Nil THEN 1
  ELSE 1 + TreeSelectLookups(S, S[a][path[1]], Tail(path))

\* tree.Pop: one lookup for each level it reaches, and the delete
RECURSIVE TreePopLookups(_, _, _)
TreePopLookups(S, a, path) ==
  IF Len(path) = 0 THEN 0
  ELSE IF path[1] \notin DOMAIN S[a] THEN 1
  ELSE IF Len(path) = 1 THEN 2
  ELSE IF S[a][path[1]] = Nil THEN 1
  ELSE 1 + TreePopLookups(S, S[a][path[1]], Tail(path))

\* tree.Inject: the store, or the Select of the prefix and the store in the cursor
TreeInjectLookups(S, a, path) ==
  IF Len(path) = 0 THEN 0
  ELSE IF Len(path) = 1 THEN 1
  ELSE LET cursor == TreeSelect(S, a, Front(path)) IN
       TreeSelectLookups(S, a, Front(path))
         + (IF cursor = Panic \/ IsNilTree(cursor) THEN 0 ELSE 1)

\* tree.InjectX: the Select of the path, and the Inject when nothing is there
TreeInjectXLookups(S, a, path) ==
  IF Len(path) = 0 THEN 0
  ELSE LET alreadyInjected == TreeSelect(S, a, path) IN
       TreeSelectLookups(S, a, path)
         + (IF alreadyInjected # Panic /\ IsNilTree(alreadyInjected)
            THEN TreeInjectLookups(S, a, path) ELSE 0)

\* Aggregations.Select
AggregationsSelectLookups(A, present, S, path) ==
  IF Len(path) = 0 \/ ~present THEN 0
  ELSE IF path[1] \notin DOMAIN A \/ Len(path) = 1 THEN 1
  ELSE IF A[path[1]] = Nil THEN 1
  ELSE 1 + TreeSelectLookups(S, A[path[1]], Tail(path))

\* Aggregations.Pop
AggregationsPopLookups(A, present, S, path) ==
  IF Len(path) = 0 \/ ~present THEN 0
  ELSE IF path[1] \notin DOMAIN A THEN 1
  ELSE IF Len(path) = 1 THEN 2
  ELSE IF A[path[1]] = Nil THEN 1
  ELSE 1 + TreePopLookups(S, A[path[1]], Tail(path))

\* Aggregations.Inject: the store, or the test of the key, the second lookup
\* of the entry and the entry's own Inject
AggregationsInjectLookups(A, present, S, path) ==
  IF Len(path) = 0 \/ ~present THEN 0
  ELSE IF Len(path) = 1 THEN 1
  ELSE IF path[1] \notin DOMAIN A THEN 1
  ELSE IF A[path[1]] = Nil THEN 2
  ELSE 2 + TreeInjectLookups(S, A[path[1]], Tail(path))

\* Aggregations.InjectX
AggregationsInjectXLookups(A, present, S, path) ==
  IF Len(path) = 0 \/ ~present THEN 0
  ELSE IF Len(path) = 1 THEN (IF path[1] \in DOMAIN A THEN 1 ELSE 2)
  ELSE IF path[1] \notin DOMAIN A THEN 1
  ELSE IF A[path[1]] = Nil THEN 2
  ELSE 2 + TreeInjectXLookups(S, A[path[1]], Tail(path))

\* tree.GetAllSubs: the child map itself (a reference to it, not a copy)
GetAllSubs(S, a) == S[a]

\* a SubAggregation that keeps the child already stored under the name
SubAggregationKeepsChild(S, a, name, subAggregation) ==
  IF name \in DOMAIN S[a] THEN S ELSE [S EXCEPT ![a] = MapSet(S[a], name, subAggregation)]

\* SubAggregation of an aggregation kind: a.subAggregations[name] = subAggregation
SubAggregation(S, a, name, subAggregation) ==
  [S EXCEPT ![a] = MapSet(S[a], name, subAggregation)]

\* the values a caller passes to Meta: a map with no entry (nil or empty), or
\* a map with an entry
MetaValues == {EmptyMap, [tag |-> "t"]}

\* the values a caller passes to Script: nil, a script whose Source() returns
\* a document, a script whose Source() returns an error
ScriptValues == {"none", "ok", "bad"}

\* the setter Meta of an aggregation kind
Meta(M, a, metaData) == [M EXCEPT ![a] = metaData]

\* the setter Script of an aggregation kind
Script(X, a, s) == [X EXCEPT ![a] = s]

\* the kind's own options in Source()
SourceOpts(a) == IF script[a] = "ok" THEN [script |-> "src"] ELSE EmptyMap

\* Source() of a kind that embeds the adapter: the errors and crashes the call
\* can end in.  The script is rendered before the children.  The children are
\* visited in the order of a Go map iteration, which is not fixed: the call
\* ends at the first child that fails, and that can be any of them.  A nil
\* child is a nil dereference.  The recursion has no visited set: a descent
\* deeper than the number of nodes is on a cycle and never returns.
RECURSIVE SourceFailures(_, _, _)
SourceFailures(S, a, depth) ==
  IF depth > NumNodes THEN {StackOverflow}
  ELSE IF script[a] = "bad" THEN {ErrScript}
  ELSE UNION {IF S[a][name] = Nil THEN {PanicErr}
              ELSE SourceFailures(S, S[a][name], depth + 1) : name \in DOMAIN S[a]}

\* the document Source() builds when nothing fails
RECURSIVE SourceDoc(_, _)
SourceDoc(S, a) ==
  LET source == [diversified_sampler |-> SourceOpts(a)]
      withAggs == IF Cardinality(DOMAIN S[a]) > 0
                  THEN MapSet(source, "aggregations",
                              [name \in DOMAIN S[a] |-> SourceDoc(S, S[a][name])])
                  ELSE source
  IN IF Cardinality(DOMAIN meta[a]) > 0 THEN MapSet(withAggs, "meta", meta[a])
     ELSE withAggs

\* the nil document returned with an error
NoDoc == EmptyMap

\* Source(): the outcomes the call can have
Source(S, a) ==
  LET failures == SourceFailures(S, a, 0) IN
  IF failures = {} THEN {[err |-> NoError, doc |-> SourceDoc(S, a)]}
  ELSE {[err |-> e, doc |-> NoDoc] : e \in failures}

\* nilAggregationTree: the root a node is constructed with, and an empty child map
nilAggregationTree(r) == [root |-> r, subAggregations |-> EmptyMap]

\* After construction: every node is built by nilAggregationTree and has an
\* empty child map.  The nodes built by the constructors of the aggregation
\* kinds have themselves as root; a node built with no root is degenerate (its
\* Export() is nil).  The collection is empty.
InitSubs == [n \in Nodes |-> nilAggregationTree(n).subAggregations]

\* no call observed yet
NoObs ==
  [op |-> "none", recv |-> "none", a |-> Nil, n |-> Nil, path |-> <<>>,
   err |-> NoError, ret |-> Nil, exported |-> EmptyMap, doc |-> NoDoc,
   subs0 |-> InitSubs, aggs0 |-> EmptyMap]

\* Either every node was built by a constructor, or the last one is degenerate.
\* A constructor sets no meta and no script.
Init ==
  /\ \E degenerate \in {{}, {NumNodes}} :
       root = [n \in Nodes |-> nilAggregationTree(IF n \in degenerate THEN Nil ELSE n).root]
  /\ subAggregations = InitSubs
  /\ aggs = EmptyMap
  /\ meta = [n \in Nodes |-> EmptyMap]
  /\ script = [n \in Nodes |-> "none"]
  /\ last = NoObs
  /\ ops = 0

\* the call ended the program
Crashed(err) == err \in {PanicErr, StackOverflow}

\* a call can be made: the program has not crashed, and the run is within bound
Running == ops < MaxOps /\ ~Crashed(last.err)

RetErr(ret) == IF ret = Panic THEN PanicErr ELSE NoError

\* A run is a history of at most MaxOps calls.  The calls before the final one
\* build the state; the final call is the call under test, and its arguments,
\* the state it was made in and its outcome are recorded in `last`.  A call
\* that crashes ends the program and is recorded as well.
Observe(call) ==
  IF Crashed(call.err) \/ ops + 1 = MaxOps
  THEN [call EXCEPT !.subs0 = subAggregations, !.aggs0 = aggs]
  ELSE NoObs

\* the receiver of a collection call: the collection, or a nil pointer
RecvName(present) == IF present THEN "aggs" ELSE "nilaggs"
RecvMap(present) == IF present THEN aggs ELSE EmptyMap

NodeInject ==
  /\ Running
  /\ \E a \in Nodes, n \in Values, path \in Paths :
       LET r == TreeInject(subAggregations, a, n, path) IN
       /\ subAggregations' = r.subs
       /\ last' = Observe([NoObs EXCEPT !.op = "Inject", !.recv = "tree", !.a = a,
                                        !.n = n, !.path = path, !.err = r.err])
  /\ ops' = ops + 1
  /\ UNCHANGED <<root, aggs, meta, script>>

NodeInjectX ==
  /\ Running
  /\ \E a \in Nodes, n \in Values, path \in Paths :
       LET r == TreeInjectX(subAggregations, a, n, path) IN
       /\ subAggregations' = r.subs
       /\ last' = Observe([NoObs EXCEPT !.op = "InjectX", !.recv = "tree", !.a = a,
                                        !.n = n, !.path = path, !.err = r.err])
  /\ ops' = ops + 1
  /\ UNCHANGED <<root, aggs, meta, script>>

NodeSelect ==
  /\ Running
  /\ \E a \in Nodes, path \in Paths :
       LET ret == TreeSelect(subAggregations, a, path) IN
       last' = Observe([NoObs EXCEPT !.op = "Select", !.recv = "tree", !.a = a,
                                     !.path = path, !.err = RetErr(ret), !.ret = ret])
  /\ ops' = ops + 1
  /\ UNCHANGED <<root, subAggregations, aggs, meta, script>>

NodePop ==
  /\ Running
  /\ \E a \in Nodes, path \in Paths :
       LET r == TreePop(subAggregations, a, path) IN
       /\ subAggregations' = r.subs
       /\ last' = Observe([NoObs EXCEPT !.op = "Pop", !.recv = "tree", !.a = a,
                                        !.path = path, !.err = RetErr(r.ret), !.ret = r.ret])
  /\ ops' = ops + 1
  /\ UNCHANGED <<root, aggs, meta, script>>

AggsInject ==
  /\ Running
  /\ \E present \in BOOLEAN, n \in Values, path \in Paths :
       LET r == AggregationsInject(RecvMap(present), present, subAggregations, n, path) IN
       /\ aggs' = IF present THEN r.aggs ELSE aggs
       /\ subAggregations' = r.subs
       /\ last' = Observe([NoObs EXCEPT !.op = "Inject", !.recv = RecvName(present),
                                        !.n = n, !.path = path, !.err = r.err])
  /\ ops' = ops + 1
  /\ UNCHANGED <<root, meta, script>>

AggsInjectX ==
  /\ Running
  /\ \E present \in BOOLEAN, n \in Values, path \in Paths :
       LET r == AggregationsInjectX(RecvMap(present), present, subAggregations, n, path) IN
       /\ aggs' = IF present THEN r.aggs ELSE aggs
       /\ subAggregations' = r.subs
       /\ last' = Observe([NoObs EXCEPT !.op = "InjectX", !.recv = RecvName(present),
                                        !.n = n, !.path = path, !.err = r.err])
  /\ ops' = ops + 1
  /\ UNCHANGED <<root, meta, script>>

AggsSelect ==
  /\ Running
  /\ \E present \in BOOLEAN, path \in Paths :
       LET ret == AggregationsSelect(RecvMap(present), present, subAggregations, path) IN
       last' = Observe([NoObs EXCEPT !.op = "Select", !.recv = RecvName(present),
                                     !.path = path, !.err = RetErr(ret), !.ret = ret])
  /\ ops' = ops + 1
  /\ UNCHANGED <<root, subAggregations, aggs, meta, script>>

AggsPop ==
  /\ Running
  /\ \E present \in BOOLEAN, path \in Paths :
       LET r == AggregationsPop(RecvMap(present), present, subAggregations, path) IN
       /\ aggs' = IF present THEN r.aggs ELSE aggs
       /\ subAggregations' = r.subs
       /\ last' = Observe([NoObs EXCEPT !.op = "Pop", !.recv = RecvName(present),
                                        !.path = path, !.err = RetErr(r.ret), !.ret = r.ret])
  /\ ops' = ops + 1
  /\ UNCHANGED <<root, meta, script>>

AggsExport ==
  /\ Running
  /\ \E present \in BOOLEAN :
       LET r == AggregationsExport(RecvMap(present), present) IN
       last' = Observe([NoObs EXCEPT !.op = "Export", !.recv = RecvName(present),
                                     !.err = r.err, !.exported = r.result])
  /\ ops' = ops + 1
  /\ UNCHANGED <<root, subAggregations, aggs, meta, script>>

NodeExport ==
  /\ Running
  /\ \E a \in Nodes :
       last' = Observe([NoObs EXCEPT !.op = "Export", !.recv = "tree", !.a = a,
                                     !.ret = Export(a)])
  /\ ops' = ops + 1
  /\ UNCHANGED <<root, subAggregations, aggs, meta, script>>

NodeSubAggregation ==
  /\ Running
  /\ \E a \in Nodes, name \in Names, n \in Values :
       /\ subAggregations' = SubAggregation(subAggregations, a, name, n)
       /\ last' = Observe([NoObs EXCEPT !.op = "SubAggregation", !.recv = "tree", !.a = a,
                                        !.n = n, !.path = <<name>>])
  /\ ops' = ops + 1
  /\ UNCHANGED <<root, aggs, meta, script>>

NodeMeta ==
  /\ Running
  /\ \E a \in Nodes, metaData \in MetaValues :
       /\ meta' = Meta(meta, a, metaData)
       /\ last' = Observe([NoObs EXCEPT !.op = "Meta", !.recv = "tree", !.a = a])
  /\ ops' = ops + 1
  /\ UNCHANGED <<root, subAggregations, aggs, script>>

NodeScript ==
  /\ Running
  /\ \E a \in Nodes, s \in ScriptValues :
       /\ script' = Script(script, a, s)
       /\ last' = Observe([NoObs EXCEPT !.op = "Script", !.recv = "tree", !.a = a])
  /\ ops' = ops + 1
  /\ UNCHANGED <<root, subAggregations, aggs, meta>>

NodeSource ==
  /\ Running
  /\ \E a \in Nodes :
       \E r \in Source(subAggregations, a) :
         last' = Observe([NoObs EXCEPT !.op = "Source", !.recv = "tree", !.a = a,
                                       !.err = r.err, !.doc = r.doc])
  /\ ops' = ops + 1
  /\ UNCHANGED <<root, subAggregations, aggs, meta, script>>

\* the adapter and the collection on their own
Next ==
  \/ NodeInject
  \/ NodeInjectX
  \/ NodeSelect
  \/ NodePop
  \/ NodeExport
  \/ AggsInject
  \/ AggsInjectX
  \/ AggsSelect
  \/ AggsPop
  \/ AggsExport

Spec == Init /\ [][Next]_vars

\* the adapter and the collection used through an aggregation kind that embeds
\* the adapter: its builder, its setters and its Source() as well
NextKind ==
  \/ Next
  \/ NodeSubAggregation
  \/ NodeMeta
  \/ NodeScript
  \/ NodeSource

SpecKind == Init /\ [][NextKind]_vars

\* ---- the call under test, and calls made right after it ----
OnTree == last.recv = "tree"
OnAggs == last.recv = "aggs"
OnNilAggs == last.recv = "nilaggs"
Unchanged == subAggregations = last.subs0 /\ aggs = last.aggs0

\* Select, Pop and InjectX on the receiver of the call under test (the node
\* last.a, or the collection A), in the heap S
SelectOn(A, S, path) ==
  IF OnTree THEN TreeSelect(S, last.a, path)
  ELSE AggregationsSelect(A, OnAggs, S, path)

PopOn(A, S, path) ==
  IF OnTree
  THEN LET r == TreePop(S, last.a, path) IN [ret |-> r.ret, aggs |-> A, subs |-> r.subs]
  ELSE AggregationsPop(A, OnAggs, S, path)

InjectXOn(A, S, n, path) ==
  IF OnTree
  THEN LET r == TreeInjectX(S, last.a, n, path) IN [err |-> r.err, aggs |-> A, subs |-> r.subs]
  ELSE AggregationsInjectX(A, OnAggs, S, n, path)

\* some segment of the path is absent when descending from the map m: its name
\* is not a key of the map reached, or the node reached before it is nil
RECURSIVE SegmentAbsent(_, _, _)
SegmentAbsent(S, m, path) ==
  IF Len(path) = 0 THEN FALSE
  ELSE IF path[1] \notin DOMAIN m THEN TRUE
  ELSE IF Len(path) = 1 THEN FALSE
  ELSE IF m[path[1]] = Nil THEN TRUE
  ELSE SegmentAbsent(S, S[m[path[1]]], Tail(path))

\* the map the receiver of the call under test descended from
RecvMap0 == IF OnTree THEN last.subs0[last.a] ELSE last.aggs0

\* Inject(n, p) of a node n at a non-empty p returned no error
InjectSucceeded ==
  /\ last.op = "Inject"
  /\ OnTree \/ OnAggs
  /\ last.n \in Nodes
  /\ last.path # <<>>
  /\ last.err = NoError

\* C1: after Inject(n, p) with a non-empty p returned no error, on a node
\* adapter or a root collection, Select(p) on the same receiver returns n.
C1_InjectThenSelect ==
  InjectSucceeded => SelectOn(aggs, subAggregations, last.path) = last.n

\* C2: after Inject(n, p) with a non-empty p returned no error, Pop(p) returns
\* n and Select(p) after that Pop returns nil; on a freshly constructed node,
\* Inject(n, "k") then Pop("k") leaves GetAllSubs() empty.
C2_InjectThenPop ==
  InjectSucceeded =>
    LET popped == PopOn(aggs, subAggregations, last.path) IN
    /\ popped.ret = last.n
    /\ SelectOn(popped.aggs, popped.subs, last.path) = Nil
    /\ (OnTree /\ Len(last.path) = 1 /\ last.subs0[last.a] = EmptyMap)
         => popped.subs[last.a] = EmptyMap

\* InjectX(n, p) of a node n at a non-empty p returned no error and changed a mapping
InjectXInserted ==
  /\ last.op = "InjectX"
  /\ OnTree \/ OnAggs
  /\ last.n \in Nodes
  /\ last.path # <<>>
  /\ last.err = NoError
  /\ ~Unchanged

\* an InjectX(n2, p) of another node right after the call under test is a no-op
\* and leaves n at p
SecondInjectXIsNoOp ==
  \A n2 \in Nodes \ {last.n} :
    LET second == InjectXOn(aggs, subAggregations, n2, last.path) IN
    /\ second.err = NoError
    /\ second.subs = subAggregations
    /\ second.aggs = aggs
    /\ SelectOn(second.aggs, second.subs, last.path) = last.n

\* C3 as stated: after InjectX(n, p) inserted n (any n), InjectX(n2, p) with
\* another node returns no error, changes no mapping, and Select(p) still
\* returns n.
C3_InjectXNeverOverwrites == InjectXInserted => SecondInjectXIsNoOp

\* C3 as amended: the same for a present n (not nil, Export() not nil) that
\* Select(p) returns after the first call.
C3_InjectXKeepsPresentNode ==
  (/\ InjectXInserted
   /\ ~IsNilTree(last.n)
   /\ SelectOn(aggs, subAggregations, last.path) = last.n) => SecondInjectXIsNoOp

\* a present node inserted by InjectX one level below a top-level entry that is
\* another node
C3_Witness ==
  /\ InjectXInserted
  /\ OnAggs
  /\ Len(last.path) = 2
  /\ ~IsNilTree(last.n)
  /\ last.aggs0[last.path[1]] # last.n
  /\ SelectOn(aggs, subAggregations, last.path) = last.n

\* C4: Inject with an empty path, on a node adapter or a root collection,
\* returns ErrNoPath and changes no child mapping and no top-level mapping.
C4_InjectEmptyPath ==
  (last.op = "Inject" /\ (OnTree \/ OnAggs) /\ last.path = <<>>)
    => (last.err = ErrNoPath /\ Unchanged)

\* Inject of a node with an empty path on a node that has a child
C4_Witness ==
  /\ last.op = "Inject"
  /\ OnTree
  /\ last.path = <<>>
  /\ last.n \in Nodes
  /\ \E k \in DOMAIN last.subs0[last.a] : last.subs0[last.a][k] \in Nodes
  /\ last.err = ErrNoPath

\* C5: on a node adapter, Inject(n, p) with len(p) >= 2 whose prefix does not
\* resolve to a present node returns ErrPathNotSelectable and changes no
\* child mapping.
C5_InjectMissingIntermediate ==
  (/\ last.op = "Inject"
   /\ OnTree
   /\ Len(last.path) >= 2
   /\ LET cursor == TreeSelect(last.subs0, last.a, Front(last.path)) IN
      cursor = Panic \/ IsNilTree(cursor))
    => (last.err = ErrPathNotSelectable /\ Unchanged)

\* C6: on a root collection, Inject(n, x, rest...) with a non-empty rest
\* returns ErrAggIsNotInjectable and changes nothing when x is not a top-level
\* key; when x is a key it returns what the entry's own Inject(n, rest...)
\* returns, with that call's effect, and succeeds when rest is one segment.
C6_CollectionDeepInject ==
  (last.op = "Inject" /\ OnAggs /\ Len(last.path) >= 2) =>
    IF last.path[1] \notin DOMAIN last.aggs0
    THEN last.err = ErrAggIsNotInjectable /\ Unchanged
    ELSE LET entry == last.aggs0[last.path[1]] IN
         /\ aggs = last.aggs0
         /\ entry # Nil =>
              LET own == TreeInject(last.subs0, entry, last.n, Tail(last.path)) IN
              last.err = own.err /\ subAggregations = own.subs
         /\ Len(last.path) = 2 => last.err = NoError

\* C7: Inject and InjectX on an absent collection return ErrAggIsNotInjectable
\* for every node and every path, and create no state.
C7_AbsentCollectionInject ==
  (last.op \in {"Inject", "InjectX"} /\ OnNilAggs)
    => (last.err = ErrAggIsNotInjectable /\ Unchanged)

\* InjectX of a node at a two-segment path on the absent collection
C7_Witness ==
  /\ last.op = "InjectX"
  /\ OnNilAggs
  /\ last.n \in Nodes
  /\ Len(last.path) = 2
  /\ last.err = ErrAggIsNotInjectable

\* C8: Export() on a root collection returns a mapping with exactly the
\* collection's top-level keys, each value the entry's own Export(), and does
\* not modify the collection; on an absent collection it returns an empty
\* mapping.
C8_CollectionExport ==
  /\ (last.op = "Export" /\ OnAggs) =>
       /\ last.err = NoError
       /\ DOMAIN last.exported = DOMAIN last.aggs0
       /\ \A k \in DOMAIN last.aggs0 : last.exported[k] = Export(last.aggs0[k])
       /\ Unchanged
  /\ (last.op = "Export" /\ OnNilAggs) =>
       (last.err = NoError /\ last.exported = EmptyMap /\ Unchanged)

\* C9: Select and Pop on a node adapter or a root collection never crash: they
\* return a node or nil, and nil when the path is empty or a segment is absent.
C9_SelectPopNeverCrash ==
  (last.op \in {"Select", "Pop"} /\ (OnTree \/ OnAggs)) =>
    /\ last.err = NoError
    /\ last.ret \in Values
    /\ (last.path = <<>> \/ SegmentAbsent(last.subs0, RecvMap0, last.path))
         => last.ret = Nil

\* C10: Pop(p) on a node adapter returns nil and changes no child mapping when
\* p is empty or a segment is missing; when p resolves it removes exactly the
\* entry of the last segment from the mapping of the node reached by the
\* preceding segments, and returns the removed node with its children intact.
C10_PopFrame ==
  (last.op = "Pop" /\ OnTree) =>
    IF last.path = <<>> \/ SegmentAbsent(last.subs0, RecvMap0, last.path)
    THEN last.ret = Nil /\ Unchanged
    ELSE LET owner == IF Len(last.path) = 1 THEN last.a
                      ELSE TreeSelect(last.subs0, last.a, Front(last.path))
             name == Last(last.path) IN
         /\ last.ret = last.subs0[owner][name]
         /\ subAggregations =
              [last.subs0 EXCEPT ![owner] = MapDelete(last.subs0[owner], name)]
         /\ aggs = last.aggs0
         /\ last.ret # Nil => subAggregations[last.ret] = last.subs0[last.ret]

\* the entries that reference the node n: <<p, k>> for the child map of the node
\* p, <<Nil, k>> for the top-level map of the collection
References(A, S, n) ==
  {e \in Nodes \X Names : e[2] \in DOMAIN S[e[1]] /\ S[e[1]][e[2]] = n}
    \cup {e \in {Nil} \X Names : e[2] \in DOMAIN A /\ A[e[2]] = n}

\* C11: single ownership: in every state reached by Inject, InjectX, Pop and
\* SubAggregation calls, a node is referenced by at most one entry of one
\* parent mapping (exactly one when it is below a root), and after Pop returned
\* a node no mapping references it.
C11_SingleOwnership ==
  /\ \A n \in Nodes : Cardinality(References(aggs, subAggregations, n)) <= 1
  /\ (last.op = "Pop" /\ last.ret \in Nodes)
       => References(aggs, subAggregations, last.ret) = {}

\* a node that is stored but has no exportable instance
Degenerate(v) == v \in Nodes /\ Export(v) = Nil

\* the tests of a resolved node on the node adapter: a degenerate node at the
\* prefix of Inject is a missing intermediate; a degenerate node at the path of
\* InjectX gives what Inject gives with that entry removed
DegenerateIsMissingOnTree ==
  /\ (/\ last.op = "Inject" /\ OnTree /\ Len(last.path) >= 2
      /\ Degenerate(TreeSelect(last.subs0, last.a, Front(last.path))))
       => (last.err = ErrPathNotSelectable /\ Unchanged)
  /\ (/\ last.op = "InjectX" /\ OnTree /\ Len(last.path) >= 1
      /\ Degenerate(TreeSelect(last.subs0, last.a, last.path)))
       => LET without == TreePop(last.subs0, last.a, last.path).subs
              inject == TreeInject(without, last.a, last.n, last.path) IN
          /\ last.err = inject.err
          /\ aggs = last.aggs0
          /\ subAggregations = IF inject.err = NoError THEN inject.subs ELSE last.subs0

\* the tests of a top-level entry on the root collection: InjectX(n, x) inserts
\* n when x holds a degenerate node, and a deeper Inject or InjectX below such
\* an x fails with ErrAggIsNotInjectable
DegenerateIsMissingOnAggs ==
  /\ (/\ last.op = "InjectX" /\ OnAggs /\ Len(last.path) = 1
      /\ last.path[1] \in DOMAIN last.aggs0
      /\ Degenerate(last.aggs0[last.path[1]]))
       => /\ last.err = NoError
          /\ aggs = MapSet(last.aggs0, last.path[1], last.n)
          /\ subAggregations = last.subs0
  /\ (/\ last.op \in {"Inject", "InjectX"} /\ OnAggs /\ Len(last.path) >= 2
      /\ last.path[1] \in DOMAIN last.aggs0
      /\ Degenerate(last.aggs0[last.path[1]]))
       => (last.err = ErrAggIsNotInjectable /\ Unchanged)

\* C12: wherever Inject or InjectX tests a resolved node for presence, on the
\* node adapter and on the root collection, a stored degenerate node gives the
\* error and the state a missing entry gives.
C12_DegenerateIsMissing == DegenerateIsMissingOnTree /\ DegenerateIsMissingOnAggs

\* C13: on a node adapter InjectX(n, p) with an empty p returns ErrNoPath and
\* changes nothing; with a non-empty p it returns no error and changes no
\* mapping when Select(p) resolves to a present node, and otherwise returns
\* the error and leaves the state that Inject(n, p) gives from the same state.
C13_InjectXIsGuardedInject ==
  (last.op = "InjectX" /\ OnTree) =>
    IF last.path = <<>> THEN last.err = ErrNoPath /\ Unchanged
    ELSE LET selected == TreeSelect(last.subs0, last.a, last.path)
             inject == TreeInject(last.subs0, last.a, last.n, last.path) IN
         IF selected \in Nodes /\ ~IsNilTree(selected)
         THEN last.err = NoError /\ Unchanged
         ELSE /\ last.err = inject.err
              /\ subAggregations = inject.subs
              /\ aggs = last.aggs0

\* C14: a Pop with two or more segments on a root collection never changes the
\* top-level mapping, whether or not the path resolves; a Pop with one segment
\* that is a key removes exactly that key; any other Pop leaves the top-level
\* mapping as it was.
C14_DeepPopKeepsTopLevel ==
  (last.op = "Pop" /\ OnAggs) =>
    IF Len(last.path) = 1 /\ last.path[1] \in DOMAIN last.aggs0
    THEN aggs = MapDelete(last.aggs0, last.path[1])
    ELSE aggs = last.aggs0

\* a two-segment Pop on the collection that resolves and removes a child of a
\* top-level entry
C14_Witness ==
  /\ last.op = "Pop"
  /\ OnAggs
  /\ Len(last.path) = 2
  /\ last.ret \in Nodes
  /\ subAggregations # last.subs0
  /\ aggs = last.aggs0

\* a node adapter outside the heap whose child mapping is the top-level mapping A
Holder == NumNodes + 1
HeapWithHolder(A, S) == [n \in Nodes \cup {Holder} |-> IF n = Holder THEN A ELSE S[n]]

\* C15: Select and Pop on an existing root collection behave like Select and
\* Pop on a node adapter whose child mapping is the collection's top-level
\* mapping: the same node (or nil) is returned and the same change is made to
\* the mappings, the top-level mapping in the place of the adapter's own.
C15_CollectionAsAdapter ==
  /\ (last.op = "Select" /\ OnAggs) =>
       /\ last.ret = TreeSelect(HeapWithHolder(last.aggs0, last.subs0), Holder, last.path)
       /\ Unchanged
  /\ (last.op = "Pop" /\ OnAggs) =>
       LET onAdapter == TreePop(HeapWithHolder(last.aggs0, last.subs0), Holder, last.path) IN
       /\ last.ret = onAdapter.ret
       /\ aggs = onAdapter.subs[Holder]
       /\ subAggregations = [n \in Nodes |-> onAdapter.subs[n]]

\* a two-segment Select on the collection that returns a node other than the
\* top-level entry
C15_Witness ==
  /\ last.op = "Select"
  /\ OnAggs
  /\ Len(last.path) = 2
  /\ last.ret \in Nodes
  /\ last.ret # last.aggs0[last.path[1]]

\* what Export() answers in a state: the owning node itself for a node built by
\* a constructor and nothing for a degenerate one, whatever the children are;
\* an Export() call returns that and changes no state
ExportAnswer ==
  /\ \A n \in Nodes : Export(n) \in {n, Nil}
  /\ (last.op = "Export" /\ OnTree) => (last.ret = Export(last.a) /\ Unchanged)

\* C16: the self-reference of a node is fixed at construction: no Inject,
\* InjectX, Select, Pop, SubAggregation, setter or Source call changes what
\* Export() of any node returns, and Export() itself reads no child mapping
\* and changes no state.
C16_ExportIsStable ==
  /\ []ExportAnswer
  /\ [][\A n \in Nodes : Export(n)' = Export(n)]_vars

\* Export() of a constructed node after it was given meta data and a child
C16_Witness ==
  /\ last.op = "Export"
  /\ OnTree
  /\ last.ret = last.a
  /\ Cardinality(DOMAIN meta[last.a]) > 0
  /\ \E k \in DOMAIN subAggregations[last.a] : subAggregations[last.a][k] \in Nodes

\* the mapping accesses of the call under test, made in the state before it
CallLookups ==
  IF OnTree
  THEN CASE last.op = "Select" -> TreeSelectLookups(last.subs0, last.a, last.path)
         [] last.op = "Pop" -> TreePopLookups(last.subs0, last.a, last.path)
         [] last.op = "Inject" -> TreeInjectLookups(last.subs0, last.a, last.path)
         [] last.op = "InjectX" -> TreeInjectXLookups(last.subs0, last.a, last.path)
  ELSE CASE last.op = "Select" ->
              AggregationsSelectLookups(last.aggs0, OnAggs, last.subs0, last.path)
         [] last.op = "Pop" ->
              AggregationsPopLookups(last.aggs0, OnAggs, last.subs0, last.path)
         [] last.op = "Inject" ->
              AggregationsInjectLookups(last.aggs0, OnAggs, last.subs0, last.path)
         [] last.op = "InjectX" ->
              AggregationsInjectXLookups(last.aggs0, OnAggs, last.subs0, last.path)

\* C17: every Inject, InjectX, Select and Pop call ends after a number of
\* mapping accesses bounded by the path length alone (twice the length), in
\* every reachable state, a node injected below itself included.
C17_LookupsBoundedByPath ==
  last.op \in {"Inject", "InjectX", "Select", "Pop"}
    => CallLookups <= 2 * Len(last.path)

\* a three-segment Select that goes round a node injected below itself
C17_Witness ==
  /\ last.op = "Select"
  /\ OnTree
  /\ Len(last.path) = 3
  /\ last.path[1] \in DOMAIN last.subs0[last.a]
  /\ last.subs0[last.a][last.path[1]] = last.a
  /\ last.ret = last.a
  /\ CallLookups = 3

\* the errors the Source() of a child of the node a can return
ChildErrors(S, a) ==
  UNION {IF S[a][name] = Nil THEN {}
         ELSE {r.err : r \in Source(S, S[a][name])} \ {NoError} : name \in DOMAIN S[a]}

\* C18: Source() of a node that embeds the adapter returns a document or an
\* error and changes no mapping.  The document has the key "aggregations"
\* exactly when the node has a child, mapping every child name to the
\* document of that child's own Source(), and the key "meta" exactly when
\* the meta map is not empty.  When the Source() of a child returns an error,
\* the call returns that error and no document.
C18_SourceRendersChildren ==
  last.op = "Source" =>
    LET children == last.subs0[last.a] IN
    /\ ~Crashed(last.err)
    /\ Unchanged
    /\ last.err = NoError =>
         /\ ("aggregations" \in DOMAIN last.doc) <=> (DOMAIN children # {})
         /\ DOMAIN children # {} =>
              /\ DOMAIN last.doc["aggregations"] = DOMAIN children
              /\ \A name \in DOMAIN children :
                   /\ children[name] \in Nodes
                   /\ [err |-> NoError, doc |-> last.doc["aggregations"][name]]
                        \in Source(last.subs0, children[name])
         /\ ("meta" \in DOMAIN last.doc) <=> (Cardinality(DOMAIN meta[last.a]) > 0)
    /\ (script[last.a] # "bad" /\ ChildErrors(last.subs0, last.a) # {}) =>
         /\ last.err \in ChildErrors(last.subs0, last.a)
         /\ last.doc = NoDoc

\* C19: SubAggregation(name, sub) on a node that embeds the adapter does what
\* a successful Inject(sub, name) does: it sets or overwrites children[name],
\* changes nothing else, and sub is then returned by Select(name) and listed
\* under name by GetAllSubs(), which is the child mapping itself.
C19_SubAggregationIsInject ==
  last.op = "SubAggregation" =>
    LET name == last.path[1]
        inject == TreeInject(last.subs0, last.a, last.n, <<name>>) IN
    /\ inject.err = NoError
    /\ subAggregations = inject.subs
    /\ aggs = last.aggs0
    /\ \A n \in Nodes : \A k \in DOMAIN last.subs0[n] :
         (n # last.a \/ k # name) =>
           (k \in DOMAIN subAggregations[n] /\ subAggregations[n][k] = last.subs0[n][k])
    /\ TreeSelect(subAggregations, last.a, <<name>>) = last.n
    /\ name \in DOMAIN GetAllSubs(subAggregations, last.a)
    /\ GetAllSubs(subAggregations, last.a)[name] = last.n
    /\ GetAllSubs(subAggregations, last.a) = subAggregations[last.a]

\* SubAggregation of a node under a name that held another node
C19_Witness ==
  /\ last.op = "SubAggregation"
  /\ last.n \in Nodes
  /\ last.path[1] \in DOMAIN last.subs0[last.a]
  /\ last.subs0[last.a][last.path[1]] \in Nodes \ {last.n}
  /\ subAggregations[last.a][last.path[1]] = last.n
====
